---- MODULE Spec2Model ----
(***************************************************************************)
(* EasyDB client: the schema checks of easydb/checks.py and the Database   *)
(* class of easydb/easydb.py (constructor and insert).                      *)
(*                                                                         *)
(* Python values are records [tag, val]: a str is tag "str" with val its   *)
(* sequence of characters, the empty list [] is tag "list", a type object  *)
(* (str, int, float, bool) is tag "type", the integer 5 is tag "int".      *)
(* Equality of these records is Python's ==.                               *)
(***************************************************************************)
EXTENDS Integers, Sequences, FiniteSets, TLC

VARIABLES
    iterable,         \* whether iter(tables) succeeds
    tables,           \* the table definitions, as far as the constructor has read them
    it,               \* position of the iterator of "for table in tables"
    table_names,      \* self.table_names
    table_count,      \* self.table_count
    table_col_count,  \* self.table_col_count
    column,           \* self.column
    col_type,         \* self.col_type
    pk,               \* self.pk
    version,          \* self.version
    schema,           \* self.schema: "()" or "tables"
    pc,               \* "init", "table", "column", "done" (returned), "raised"
    exc,              \* the exception that left the constructor, "None" if none
    printed,          \* whether "item is not iterable" was printed
    returned,         \* the insert calls made so far, in order
    cand,             \* identifier checks: the candidate name
    existing,         \* identifier checks: the names accepted so far
    tres,             \* outcome of table_name_check(cand, existing)
    cres              \* outcome of column_name_check(cand, column list)

vars == <<iterable, tables, it, table_names, table_count, table_col_count,
          column, col_type, pk, version, schema, pc, exc, printed, returned,
          cand, existing, tres, cres>>

schemaVars == <<table_names, table_count, table_col_count, column, col_type>>

identVars == <<cand, existing, tres, cres>>

-----------------------------------------------------------------------------
(* Bounds *)

MaxTables == 2      \* table definitions in the input list
MaxCols == 2        \* column definitions per table
MaxInserts == 4     \* insert calls on one handle
MaxNameLen == 2     \* characters of a candidate name (identifier checks)
MaxExisting == 1    \* names accepted before the candidate (identifier checks)

-----------------------------------------------------------------------------
(* Python values *)

Str(s) == [tag |-> "str", val |-> s]
EmptyList == [tag |-> "list", val |-> <<>>]
Int5 == [tag |-> "int", val |-> <<"5">>]
TStr == [tag |-> "type", val |-> <<"str">>]
TInt == [tag |-> "type", val |-> <<"int">>]
TFloat == [tag |-> "type", val |-> <<"float">>]
TBool == [tag |-> "type", val |-> <<"bool">>]
\* A part of the input the constructor never read.
Unread == [tag |-> "unread", val |-> <<>>]

\* Characters: ASCII lower and upper letter, digit, underscore, symbol,
\* a non-ASCII letter (e-acute) and the newline.
Chars == {"a", "A", "0", "_", "$", "E_ACUTE", "NL"}

AsciiLetters == {"a", "A"}

\* str.isalpha() of one character: true of every Unicode letter.
isalpha(c) == c \in {"a", "A", "E_ACUTE"}

\* The character class [A-Za-z0-9_].
InClass(c) == c \in {"a", "A", "0", "_"}

Range(s) == {s[i] : i \in 1..Len(s)}

\* re.match("^[A-Za-z0-9_]*$", s) # None.  The class is matched greedily with
\* backtracking from the start, and $ matches at the end of the string or
\* just before a newline that ends the string.
re_match(s) ==
    \E k \in 0..Len(s) :
        /\ \A i \in 1..k : InClass(s[i])
        /\ \/ k = Len(s)
           \/ k = Len(s) - 1 /\ s[Len(s)] = "NL"

\* The checks return None or raise; the outcome is "None" or the kind of the
\* exception: TypeError "... is not a string" is NotAString, ValueError
\* "... must start with a letter" is MustStartWithLetter, ValueError "... must
\* only contain ..." is InvalidCharacters, ValueError "duplicate ..." is
\* DuplicateName, and table_name[0] on the empty string raises IndexError.
table_name_check_nofirst(table_name, existing_names) ==
    IF table_name.tag # "str" THEN "NotAString"
    ELSE IF Len(table_name.val) = 0 THEN "IndexError"
    ELSE IF ~re_match(table_name.val) THEN "InvalidCharacters"
    ELSE IF \E i \in 1..Len(existing_names) : table_name = existing_names[i]
         THEN "DuplicateName"
    ELSE "None"

table_name_check_nodup(table_name, existing_names) ==
    IF table_name.tag # "str" THEN "NotAString"
    ELSE IF Len(table_name.val) = 0 THEN "IndexError"
    ELSE IF ~isalpha(table_name.val[1]) THEN "MustStartWithLetter"
    ELSE IF ~re_match(table_name.val) THEN "InvalidCharacters"
    ELSE "None"

table_name_check(table_name, existing_names) ==
    IF table_name.tag # "str" THEN "NotAString"
    ELSE IF Len(table_name.val) = 0 THEN "IndexError"
    ELSE IF ~isalpha(table_name.val[1]) THEN "MustStartWithLetter"
    ELSE IF ~re_match(table_name.val) THEN "InvalidCharacters"
    ELSE IF \E i \in 1..Len(existing_names) : table_name = existing_names[i]
         THEN "DuplicateName"
    ELSE "None"

column_name_check(col_name, existing_names) ==
    IF col_name.tag # "str" THEN "NotAString"
    ELSE IF Len(col_name.val) = 0 THEN "IndexError"
    ELSE IF ~isalpha(col_name.val[1]) THEN "MustStartWithLetter"
    ELSE IF ~re_match(col_name.val) THEN "InvalidCharacters"
    ELSE IF \E i \in 1..Len(existing_names) : col_name = existing_names[i]
         THEN "DuplicateName"
    ELSE "None"

\* table_index is the 0-based index Python uses.  IntegrityError "... references
\* to current table" is SelfReferencingForeignKey, IntegrityError "... a
\* nonexistent table" is UnknownForeignKeyTarget, ValueError "column type is
\* not one of ..." is UnsupportedColumnType.
column_type_check_noself(col_type_, table_index, existing_table_names) ==
    IF col_type_.tag = "str"
    THEN IF col_type_ \notin Range(existing_table_names)
         THEN "UnknownForeignKeyTarget"
         ELSE "None"
    ELSE IF col_type_ # TStr /\ col_type_ # TInt /\ col_type_ # TFloat
         THEN "UnsupportedColumnType"
    ELSE "None"

column_type_check_first(col_type_, table_index, existing_table_names) ==
    IF col_type_.tag = "str"
    THEN IF col_type_ = existing_table_names[1]
         THEN "SelfReferencingForeignKey"
         ELSE IF col_type_ \notin Range(existing_table_names)
         THEN "UnknownForeignKeyTarget"
         ELSE "None"
    ELSE IF col_type_ # TStr /\ col_type_ # TInt /\ col_type_ # TFloat
         THEN "UnsupportedColumnType"
    ELSE "None"

column_type_check_anystr(col_type_, table_index, existing_table_names) ==
    IF col_type_.tag = "str"
    THEN IF col_type_ = existing_table_names[table_index + 1]
         THEN "SelfReferencingForeignKey"
         ELSE "None"
    ELSE IF col_type_ # TStr /\ col_type_ # TInt /\ col_type_ # TFloat
         THEN "UnsupportedColumnType"
    ELSE "None"

column_type_check(col_type_, table_index, existing_table_names) ==
    IF col_type_.tag = "str"
    THEN IF col_type_ = existing_table_names[table_index + 1]
         THEN "SelfReferencingForeignKey"
         ELSE IF col_type_ \notin Range(existing_table_names)
         THEN "UnknownForeignKeyTarget"
         ELSE "None"
    ELSE IF col_type_ # TStr /\ col_type_ # TInt /\ col_type_ # TFloat
         THEN "UnsupportedColumnType"
    ELSE "None"

-----------------------------------------------------------------------------
(* Database.__init__ *)

\* iter(obj) raises TypeError on a value that is not iterable; the check then
\* prints "item is not iterable" and returns False, and returns None otherwise.
iterable_check(obj_iterable) == IF obj_iterable THEN "None" ELSE "False"

\* The names and types the table definitions are drawn from.
TableNamePool ==
    {Str(<<"a">>), Str(<<"A">>), Str(<<"a", "0">>),
     Str(<<>>), Str(<<"0">>), Str(<<"a", "$">>), Int5}

ColNamePool ==
    {Str(<<"a">>), Str(<<"A">>),
     Str(<<>>), Str(<<"_">>), Str(<<"a", "$">>), Int5}

TypePool ==
    {TStr, TInt, TFloat, TBool,
     Str(<<"a">>), Str(<<"A">>), Str(<<"a", "0">>), Str(<<"g">>)}

TableLists ==
    UNION {[1..n -> [name : TableNamePool, cols : {<<>>}]] : n \in 0..MaxTables}

\* The fields as lines 17-24 set them.
Fields0 ==
    /\ schema = "()"
    /\ table_names = <<>>
    /\ table_count = 0
    /\ table_col_count = <<>>
    /\ column = <<>>
    /\ col_type = <<>>
    /\ pk = 1
    /\ version = 0

NoIdent ==
    /\ cand = EmptyList
    /\ existing = <<>>
    /\ tres = "unset"
    /\ cres = "unset"

\* Database(tables) is entered: the argument is a list of table definitions
\* or a value that is not iterable.  The column definitions of a table are
\* read, and recorded in tables, when the loop of line 34 reaches them; the
\* type of a column whose name check raises is never read (line 39).
Init ==
    /\ iterable \in BOOLEAN
    /\ tables \in IF iterable THEN TableLists ELSE {<<>>}
    /\ it = 0
    /\ Fields0
    /\ pc = "init"
    /\ exc = "None"
    /\ printed = FALSE
    /\ returned = <<>>
    /\ NoIdent

\* Line 26-27.
Start ==
    /\ pc = "init"
    /\ IF iterable_check(iterable) # "False"
       THEN /\ schema' = "tables"
            /\ pc' = "table"
            /\ UNCHANGED printed
       ELSE /\ printed' = TRUE
            /\ pc' = "done"
            /\ UNCHANGED schema
    /\ UNCHANGED <<iterable, tables, it, schemaVars, pk, version, exc,
                   returned, identVars>>

\* Lines 28-33: the iterator yields the next table, its name is checked and,
\* when the check returns, the name and the table's empty lists are appended.
NextTable ==
    /\ pc = "table"
    /\ it < Len(tables)
    /\ LET table == tables[it + 1]
           r == table_name_check(table.name, table_names)
       IN  /\ it' = it + 1
           /\ IF r # "None"
              THEN /\ pc' = "raised"
                   /\ exc' = r
                   /\ UNCHANGED <<table_names, column, col_type, table_col_count>>
              ELSE /\ table_names' = Append(table_names, table.name)
                   /\ column' = Append(column, <<>>)
                   /\ col_type' = Append(col_type, <<>>)
                   /\ table_col_count' = Append(table_col_count, 0)
                   /\ pc' = "column"
                   /\ UNCHANGED exc
    /\ UNCHANGED <<iterable, tables, table_count, pk, version, schema,
                   printed, returned, identVars>>

\* Lines 34-40, one iteration: the next column definition of
\* tables[table_count] is read, [] is appended to the table's column list,
\* then the name is checked and saved, then the type is checked and saved.
NextColumn ==
    /\ pc = "column"
    /\ Len(tables[table_count + 1].cols) < MaxCols
    /\ \E name \in ColNamePool :
         LET t == table_count + 1
             col1 == Append(column[t], EmptyList)
             rn == column_name_check(name, col1)
         IN  IF rn # "None"
             THEN /\ tables' = [tables EXCEPT ![t].cols =
                                   Append(@, [name |-> name, type |-> Unread])]
                  /\ column' = [column EXCEPT ![t] = col1]
                  /\ pc' = "raised"
                  /\ exc' = rn
                  /\ UNCHANGED <<table_col_count, col_type>>
             ELSE \E type \in TypePool :
                    LET rt == column_type_check(type, table_count, table_names)
                    IN  /\ tables' = [tables EXCEPT ![t].cols =
                                         Append(@, [name |-> name, type |-> type])]
                        /\ column' = [column EXCEPT ![t] = Append(col1, name)]
                        /\ table_col_count' =
                               [table_col_count EXCEPT ![t] = @ + 1]
                        /\ IF rt # "None"
                           THEN /\ pc' = "raised"
                                /\ exc' = rt
                                /\ UNCHANGED col_type
                           ELSE /\ col_type' =
                                     [col_type EXCEPT ![t] = Append(@, type)]
                                /\ UNCHANGED <<pc, exc>>
    /\ UNCHANGED <<iterable, it, table_names, table_count, pk, version, schema,
                   printed, returned, identVars>>

\* Line 41: the column list of the table is exhausted.
EndColumns ==
    /\ pc = "column"
    /\ table_count' = table_count + 1
    /\ pc' = "table"
    /\ UNCHANGED <<iterable, tables, it, table_names, table_col_count, column,
                   col_type, pk, version, schema, exc, printed, returned,
                   identVars>>

\* Line 28: the iterator is exhausted and the constructor returns.
EndTables ==
    /\ pc = "table"
    /\ it = Len(tables)
    /\ pc' = "done"
    /\ UNCHANGED <<iterable, tables, it, schemaVars, pk, version, schema, exc,
                   printed, returned, identVars>>

Next == Start \/ NextTable \/ NextColumn \/ EndColumns \/ EndTables

Spec == Init /\ [][Next]_vars

-----------------------------------------------------------------------------
(* Database.insert *)

\* insert_check is not defined in checks.py; the row-value checker is taken
\* as external: it returns None (the values pass), returns False, or raises.
InsertCheckOutcomes == {"None", "False", "raise"}

insert_noincrement(pk_, version_, check) ==
    [pk |-> pk_, version |-> version_, ret |-> <<pk_, version_>>]

\* Lines 52-55 once insert_check has returned check: the fields after the
\* call and the pair returned.
insert(pk_, version_, check) ==
    LET p == IF check # "False" THEN pk_ + 1 ELSE pk_
    IN  [pk |-> p, version |-> version_, ret |-> <<p, version_>>]

\* A handle whose construction returned: Database([]) or Database(5).
InitInsert ==
    /\ iterable \in BOOLEAN
    /\ tables = <<>>
    /\ it = 0
    /\ Fields0
    /\ pc = "done"
    /\ exc = "None"
    /\ printed = ~iterable
    /\ returned = <<>>
    /\ NoIdent

\* One call of insert; an exception of insert_check leaves the call before
\* any field is written.
Insert ==
    /\ pc = "done"
    /\ Len(returned) < MaxInserts
    /\ \E check \in InsertCheckOutcomes :
         IF check = "raise"
         THEN /\ returned' = Append(returned,
                     [check |-> check, pre |-> pk, ret |-> <<>>])
              /\ UNCHANGED <<pk, version>>
         ELSE LET r == insert(pk, version, check)
              IN  /\ pk' = r.pk
                  /\ version' = r.version
                  /\ returned' = Append(returned,
                         [check |-> check, pre |-> pk, ret |-> r.ret])
    /\ UNCHANGED <<iterable, tables, it, schemaVars, schema, pc, exc, printed,
                   identVars>>

NextInsert == Insert

SpecInsert == InitInsert /\ [][NextInsert]_vars

-----------------------------------------------------------------------------
(* table_name_check and column_name_check on their own *)

StringsUpTo(n) == UNION {[1..k -> Chars] : k \in 0..n}

\* The names a check has accepted.
AcceptedNames ==
    {Str(s) : s \in {x \in StringsUpTo(MaxNameLen) :
                        table_name_check(Str(x), <<>>) = "None"}}

DistinctSeqs(S, n) ==
    UNION {{q \in [1..k -> S] : \A i, j \in 1..k : i # j => q[i] # q[j]}
           : k \in 0..n}

\* self.column[self.table_count] when line 36 checks a name: [] before each
\* of the names saved so far, and the [] line 35 has just appended.
ColumnList(names) ==
    [i \in 1..(2 * Len(names) + 1) |->
        IF i % 2 = 1 THEN EmptyList ELSE names[i \div 2]]

InitIdent ==
    /\ cand \in {Str(s) : s \in StringsUpTo(MaxNameLen)} \cup {Int5, EmptyList}
    /\ existing \in DistinctSeqs(AcceptedNames, MaxExisting)
    /\ tres = "unset"
    /\ cres = "unset"
    /\ iterable = TRUE
    /\ tables = <<>>
    /\ it = 0
    /\ Fields0
    /\ pc = "init"
    /\ exc = "None"
    /\ printed = FALSE
    /\ returned = <<>>

CheckIdent ==
    /\ tres = "unset"
    /\ tres' = table_name_check(cand, existing)
    /\ cres' = column_name_check(cand, ColumnList(existing))
    /\ UNCHANGED <<cand, existing, iterable, tables, it, schemaVars, pk,
                   version, schema, pc, exc, printed, returned>>

NextIdent == CheckIdent

SpecIdent == InitIdent /\ [][NextIdent]_vars

-----------------------------------------------------------------------------
(* Properties *)

Built == pc = "done"
Failed == pc = "raised"

\* The kinds of failure the design names.
Kinds ==
    {"NotAString", "MustStartWithLetter", "InvalidCharacters", "DuplicateName",
     "SelfReferencingForeignKey", "UnknownForeignKeyTarget",
     "UnsupportedColumnType", "NotIterable"}

InputTableNames == [i \in 1..Len(tables) |-> tables[i].name]
InputColNames(t) == [k \in 1..Len(tables[t].cols) |-> tables[t].cols[k].name]
InputColTypes(t) == [k \in 1..Len(tables[t].cols) |-> tables[t].cols[k].type]

IsStr(e) == e.tag = "str"

\* The entries of column[t] that are names.
ColumnNames(t) == SelectSeq(column[t], IsStr)

Distinct(q) == \A i, j \in 1..Len(q) : i # j => q[i] # q[j]

\* The column definition read last, in the table the iterator is at.
ColumnRead == pc \in {"column", "raised"} /\ it > 0 /\ Len(tables[it].cols) > 0
LastCol == tables[it].cols[Len(tables[it].cols)]
\* Its name passed the check and was saved, so its type was checked.
NameSaved == column[it][Len(column[it])] = LastCol.name
TypeSaved ==
    /\ pc = "column"
    /\ Len(col_type[it]) = Len(tables[it].cols)
    /\ col_type[it][Len(col_type[it])] = LastCol.type

\* C1: a Database built from a list that passes all checks exposes exactly
\* the input: table_count and table_names are those of the input and, for
\* every table t, column[t] is the list of the input column names of t with
\* no other entries, table_col_count[t] is its length and col_type[t] the
\* list of the input column types.
C1_ExposesInput ==
    (Built /\ iterable) =>
        /\ table_count = Len(tables)
        /\ table_names = InputTableNames
        /\ \A t \in 1..Len(tables) :
              /\ column[t] = InputColNames(t)
              /\ table_col_count[t] = Len(column[t])
              /\ col_type[t] = InputColTypes(t)

\* C2: when the table-definition input is not iterable, construction ends
\* Failed with kind NotIterable and never returns a Database handle.
C2_NotIterableRejected ==
    (~iterable /\ pc # "init") => (Failed /\ exc = "NotIterable")

\* C3: a string candidate that is empty or whose first character is not a
\* letter fails both name checks with kind MustStartWithLetter, whatever its
\* other characters and the existing names.
C3_MustStartWithLetter ==
    (/\ tres # "unset"
     /\ IsStr(cand)
     /\ (Len(cand.val) = 0 \/ cand.val[1] \notin AsciiLetters \cup {"E_ACUTE"}))
    => (tres = "MustStartWithLetter" /\ cres = "MustStartWithLetter")

\* The pattern ^[A-Za-z][A-Za-z0-9_]*$ as Python's re.match reads it ($ also
\* matches before a newline that ends the string).
MatchesIdentifier(s) ==
    /\ Len(s) >= 1
    /\ s[1] \in AsciiLetters
    /\ \E k \in 1..Len(s) :
          /\ \A i \in 2..k : s[i] \in {"a", "A", "0", "_"}
          /\ \/ k = Len(s)
             \/ k = Len(s) - 1 /\ s[Len(s)] = "NL"

C5_SelfReference ==
    (ColumnRead /\ NameSaved /\ LastCol.type = tables[it].name) =>
        /\ Failed
        /\ exc = "SelfReferencingForeignKey"
        /\ table_count = it - 1

\* The second table references itself.
C5_Witness ==
    /\ ColumnRead
    /\ NameSaved
    /\ LastCol.type = tables[it].name
    /\ it = 2
    /\ exc = "SelfReferencingForeignKey"

\* C6: a string column type other than the owning table's name is saved as a
\* foreign key exactly when it names a table declared strictly earlier; one
\* that names no table of the list, or a table declared later, fails with
\* UnknownForeignKeyTarget.
C6_ForeignKeyTarget ==
    (ColumnRead /\ NameSaved /\ IsStr(LastCol.type)
                /\ LastCol.type # tables[it].name) =>
        LET earlier == \E j \in 1..(it - 1) : tables[j].name = LastCol.type
        IN  /\ TypeSaved <=> earlier
            /\ ~earlier => (Failed /\ exc = "UnknownForeignKeyTarget")

\* A forward reference: the type names the table declared next.
C6_Witness ==
    /\ ColumnRead
    /\ NameSaved
    /\ it = 1
    /\ Len(tables) = 2
    /\ LastCol.type = tables[2].name
    /\ LastCol.type # tables[1].name
    /\ exc = "UnknownForeignKeyTarget"

\* C7: construction is fail-fast and its end states are terminal: the first
\* check that fails, the iterable check included, puts the builder in Failed
\* with the kind of that check, what was appended before stays, and neither
\* Built nor Failed has a further transition.
C7_FailFast ==
    [][/\ (pc \in {"done", "raised"}) => UNCHANGED vars
       /\ (pc = "init" /\ ~iterable) => (pc' = "raised" /\ exc' = "NotIterable")
       /\ (pc' = "raised") =>
             /\ exc' \in Kinds
             /\ table_names' = table_names
             /\ table_count' = table_count
             /\ col_type' = col_type]_vars

\* C8: every insert call whose values pass row validation returns (pk,
\* version) with pk the counter after its increment by one, greater than the
\* pk every earlier call returned, and version 0; no call changes version.
C8_InsertReturns ==
    /\ version = 0
    /\ \A i \in 1..Len(returned) :
          returned[i].check = "None" =>
              /\ returned[i].ret = <<returned[i].pre + 1, 0>>
              /\ \A j \in 1..(i - 1) :
                    returned[j].check # "raise" =>
                        returned[j].ret[1] < returned[i].ret[1]

\* A passing call after a passing and a failing one.
C8_Witness ==
    /\ Len(returned) = 3
    /\ returned[1].check = "None"
    /\ returned[2].check = "False"
    /\ returned[3].check = "None"

\* C9: in a Built schema the table names are pairwise distinct, the column
\* names of each table are pairwise distinct, and every string column type
\* names a table of table_names other than the column's own table.
C9_BuiltInvariants ==
    Built =>
        /\ Distinct(table_names)
        /\ \A t \in 1..Len(column) : Distinct(ColumnNames(t))
        /\ \A t \in 1..Len(col_type) : \A k \in 1..Len(col_type[t]) :
              IsStr(col_type[t][k]) =>
                  /\ col_type[t][k] \in Range(table_names)
                  /\ col_type[t][k] # table_names[t]

\* Two tables, the second with two columns, one of them a foreign key.
C9_Witness ==
    /\ Built
    /\ table_count = 2
    /\ Len(ColumnNames(2)) = 2
    /\ \E k \in 1..Len(col_type[2]) : IsStr(col_type[2][k])

\* C10: in a Built schema every foreign-key column of the table at position
\* i names a table at a position strictly less than i.
C10_ForeignKeysPointBack ==
    Built =>
        \A i \in 1..Len(col_type) : \A k \in 1..Len(col_type[i]) :
            IsStr(col_type[i][k]) =>
                \E j \in 1..(i - 1) : table_names[j] = col_type[i][k]

\* The last table declared has two foreign keys.
C10_Witness ==
    /\ Built
    /\ table_count = MaxTables
    /\ Len(col_type[MaxTables]) = 2
    /\ \A k \in 1..2 : IsStr(col_type[MaxTables][k])

====
